---- MODULE Spec2Model ----
(***************************************************************************)
(* A model of mlocate_reader.py: the mlocate.db binary decoder             *)
(* (parse_mlocate_db) and the path matcher (search_paths).                 *)
(*                                                                         *)
(* Bytes are numbers 0..255, a buffer is a sequence of bytes, a string is  *)
(* a sequence of Unicode code points.  Python offsets are 0-based, TLA+    *)
(* sequences are 1-based: byte i of a buffer d is d[i + 1].                *)
(***************************************************************************)
EXTENDS Integers, Sequences, FiniteSets, TLC

VARIABLES data, pc, pos, outcome, config_size, version, require_vis,
          root_path, dir_path, entry_type, all_paths, seen, result,
          run, data2, first_result, family, recs,
          paths, pattern, ignore_case, use_glob, use_regex, limit, results, idx,
          spc, soutcome

pvars == <<data, pc, pos, outcome, config_size, version, require_vis,
           root_path, dir_path, entry_type, all_paths, seen, result>>
tvars == <<run, data2, first_result, family, recs>>
svars == <<paths, pattern, ignore_case, use_glob, use_regex, limit, results, idx,
           spc, soutcome>>
vars == <<pvars, tvars, svars>>

-----------------------------------------------------------------------------
(* Program constants *)

\* MLOCATE_MAGIC = b"\x00mlocate"
MLOCATE_MAGIC == <<0, 109, 108, 111, 99, 97, 116, 101>>
FILE_ENTRY == 0
DIR_ENTRY == 1
END_ENTRY == 2

\* The byte b"\x00" searched by data.index, and the "/" of the path builder.
NUL == 0
SLASH == 47
\* U+FFFD, what errors="replace" puts for an undecodable byte sequence.
REPLACEMENT == 65533
\* A local that has not been assigned yet.
Unset == -1

-----------------------------------------------------------------------------
(* Python's bytes primitives *)

Min(a, b) == IF a < b THEN a ELSE b

\* data[i]; the caller checks InRange first (IndexError otherwise).
InRange(d, i) == i >= 0 /\ i < Len(d)
ByteAt(d, i) == d[i + 1]

\* data[a:b], clamped to the buffer as Python slices are.
Slice(d, a, b) == SubSeq(d, a + 1, Min(b, Len(d)))

\* struct.unpack(">I", four bytes)[0]
UnpackU32(b) == ((b[1] * 256 + b[2]) * 256 + b[3]) * 256 + b[4]

\* data.index(b"\x00", start): the least offset >= start of a NUL byte, or
\* NotFound where Python raises ValueError.
NotFound == -1
NullOffsets(d, start) == {i \in start..(Len(d) - 1) : d[i + 1] = NUL}
\* A search that takes the end of the buffer for a terminator.
FindNullOrEnd(d, start) ==
    IF NullOffsets(d, start) = {} THEN (IF start > Len(d) THEN start ELSE Len(d))
    ELSE CHOOSE i \in NullOffsets(d, start) : \A j \in NullOffsets(d, start) : i <= j

FindNull(d, start) ==
    IF NullOffsets(d, start) = {} THEN NotFound
    ELSE CHOOSE i \in NullOffsets(d, start) : \A j \in NullOffsets(d, start) : i <= j

\* bytes.decode("utf-8", errors="replace"): one code point per well-formed
\* sequence, one U+FFFD per maximal ill-formed subpart.
IsCont(b) == b >= 128 /\ b <= 191
SecondOk(lead, b) ==
    IF lead = 224 THEN b >= 160 /\ b <= 191
    ELSE IF lead = 237 THEN b >= 128 /\ b <= 159
    ELSE IF lead = 240 THEN b >= 144 /\ b <= 191
    ELSE IF lead = 244 THEN b >= 128 /\ b <= 143
    ELSE IsCont(b)
SeqLen(lead) ==
    IF lead < 128 THEN 1
    ELSE IF lead >= 194 /\ lead <= 223 THEN 2
    ELSE IF lead >= 224 /\ lead <= 239 THEN 3
    ELSE IF lead >= 240 /\ lead <= 244 THEN 4
    ELSE 0
\* How many bytes after the lead continue a well-formed prefix (at most need-1).
GoodTail(b, i, need) ==
    IF need < 2 \/ i + 1 > Len(b) \/ ~SecondOk(b[i], b[i + 1]) THEN 0
    ELSE IF need < 3 \/ i + 2 > Len(b) \/ ~IsCont(b[i + 2]) THEN 1
    ELSE IF need < 4 \/ i + 3 > Len(b) \/ ~IsCont(b[i + 3]) THEN 2
    ELSE 3
CodePoint(b, i, n) ==
    IF n = 1 THEN b[i]
    ELSE IF n = 2 THEN (b[i] - 192) * 64 + (b[i + 1] - 128)
    ELSE IF n = 3 THEN ((b[i] - 224) * 64 + (b[i + 1] - 128)) * 64 + (b[i + 2] - 128)
    ELSE (((b[i] - 240) * 64 + (b[i + 1] - 128)) * 64 + (b[i + 2] - 128)) * 64
         + (b[i + 3] - 128)

RECURSIVE DecodeFrom(_, _)
DecodeFrom(b, i) ==
    IF i > Len(b) THEN <<>>
    ELSE LET need == SeqLen(b[i])
             good == GoodTail(b, i, need)
         IN IF need # 0 /\ good = need - 1
            THEN <<CodePoint(b, i, need)>> \o DecodeFrom(b, i + need)
            ELSE <<REPLACEMENT>> \o DecodeFrom(b, i + 1 + good)

Decode(b) == DecodeFrom(b, 1)

-----------------------------------------------------------------------------
(* parse_mlocate_db: helpers *)

\* A comparison of only the bytes that are there: a short file that is a prefix
\* of the magic passes.
MagicMismatchPrefix(d) == \E i \in 1..Min(Len(d), 8) : d[i] # MLOCATE_MAGIC[i]

\* Line 44: magic != MLOCATE_MAGIC, with magic = data[pos:pos + 8].
MagicMismatch(d) == Slice(d, 0, 8) # MLOCATE_MAGIC

\* The cursor carried on from the end of root_path, then config_size bytes.
SkipFromRootPath(cs, null_idx) == null_idx + 1 + cs

\* Line 69: pos = 8 + 4 + 4 + config_size.  null_idx is where line 64 found the
\* terminator of root_path; the assignment does not use it.
SkipConfigPos(cs, null_idx) == 8 + 4 + 4 + cs

\* The join without the special case for the root directory.
FullPathPlainJoin(dp, entry_name) == dp \o <<SLASH>> \o entry_name

\* Lines 106-109: the full path of a child entry.
FullPath(dp, entry_name) ==
    IF dp = <<SLASH>> THEN <<SLASH>> \o entry_name
    ELSE dp \o <<SLASH>> \o entry_name

\* The append without the membership test.
AppendAlways(ps, sn, p) == Append(ps, p)

\* Lines 88-90 and 112-114: append unless already seen.
AppendUnseen(ps, sn, p) == IF p \notin sn THEN Append(ps, p) ELSE ps

\* Line 75-77: the outer loop goes on while a whole 16-byte header remains.
MoreRecordsAnyByte(d, p) == p < Len(d)
MoreRecords(d, p) == p < Len(d) /\ ~(p + 16 > Len(d))

\* Line 93: the inner loop goes on while bytes remain.
MoreEntries(d, p) == p < Len(d)

\* Line 116: return all_paths, root_path, version
Returned(ps, rp, v) == {[paths |-> ps, root_path |-> rp, version |-> v]}

-----------------------------------------------------------------------------
(* parse_mlocate_db: one action per statement group; an uncaught exception  *)
(* or sys.exit(1) ends the call at pc = "exit" with nothing returned.       *)

Raise(exc) ==
    /\ pc' = "exit"
    /\ outcome' = exc

\* Lines 42-48, magic accepted.
ReadMagic ==
    /\ pc = "magic"
    /\ ~MagicMismatch(data)
    /\ pos' = pos + 8
    /\ pc' = "config_size"
    /\ UNCHANGED <<data, outcome, config_size, version, require_vis, root_path,
                   dir_path, entry_type, all_paths, seen, result, tvars, svars>>

\* Lines 42-48, magic refused: sys.exit(1).
RejectMagic ==
    /\ pc = "magic"
    /\ MagicMismatch(data)
    /\ pos' = pos + 8
    /\ Raise("InvalidFormat")
    /\ UNCHANGED <<data, config_size, version, require_vis, root_path,
                   dir_path, entry_type, all_paths, seen, result, tvars, svars>>

\* Lines 51-52.
ReadConfigSize ==
    /\ pc = "config_size"
    /\ Len(Slice(data, pos, pos + 4)) = 4
    /\ config_size' = UnpackU32(Slice(data, pos, pos + 4))
    /\ pos' = pos + 4
    /\ pc' = "version"
    /\ UNCHANGED <<data, outcome, version, require_vis, root_path,
                   dir_path, entry_type, all_paths, seen, result, tvars, svars>>

\* Line 51 on fewer than four bytes: struct.error.
ReadConfigSizeError ==
    /\ pc = "config_size"
    /\ Len(Slice(data, pos, pos + 4)) # 4
    /\ Raise("struct.error")
    /\ UNCHANGED <<data, pos, config_size, version, require_vis, root_path,
                   dir_path, entry_type, all_paths, seen, result, tvars, svars>>

\* Lines 54-55.
ReadVersion ==
    /\ pc = "version"
    /\ InRange(data, pos)
    /\ version' = ByteAt(data, pos)
    /\ pos' = pos + 1
    /\ pc' = "require_vis"
    /\ UNCHANGED <<data, outcome, config_size, require_vis, root_path,
                   dir_path, entry_type, all_paths, seen, result, tvars, svars>>

\* Lines 57-61: require_vis, then the two padding bytes are stepped over
\* without being read.
ReadRequireVis ==
    /\ pc = "require_vis"
    /\ InRange(data, pos)
    /\ require_vis' = ByteAt(data, pos)
    /\ pos' = pos + 1 + 2
    /\ pc' = "root_path"
    /\ UNCHANGED <<data, outcome, config_size, version, root_path,
                   dir_path, entry_type, all_paths, seen, result, tvars, svars>>

\* Lines 54 and 57 past the end of the buffer: IndexError.
ReadHeaderByteError ==
    /\ pc \in {"version", "require_vis"}
    /\ ~InRange(data, pos)
    /\ Raise("IndexError")
    /\ UNCHANGED <<data, pos, config_size, version, require_vis, root_path,
                   dir_path, entry_type, all_paths, seen, result, tvars, svars>>

\* Lines 64-66.
ReadRootPath ==
    /\ pc = "root_path"
    /\ FindNull(data, pos) # NotFound
    /\ root_path' = Decode(Slice(data, pos, FindNull(data, pos)))
    /\ pos' = FindNull(data, pos) + 1
    /\ pc' = "skip"
    /\ UNCHANGED <<data, outcome, config_size, version, require_vis,
                   dir_path, entry_type, all_paths, seen, result, tvars, svars>>

\* Lines 64, 83 and 101 with no NUL at or after pos: ValueError.
ReadStringError ==
    /\ pc \in {"root_path", "dir_path", "name"}
    /\ FindNull(data, pos) = NotFound
    /\ Raise("ValueError")
    /\ UNCHANGED <<data, pos, config_size, version, require_vis, root_path,
                   dir_path, entry_type, all_paths, seen, result, tvars, svars>>

\* Lines 69-72.  pos - 1 is the null_idx of line 64.
SkipConfig ==
    /\ pc = "skip"
    /\ pos' = SkipConfigPos(config_size, pos - 1)
    /\ all_paths' = <<>>
    /\ seen' = {}
    /\ pc' = "loop"
    /\ UNCHANGED <<data, outcome, config_size, version, require_vis, root_path,
                   dir_path, entry_type, result, tvars, svars>>

\* Lines 75-80: another directory header is stepped over.
SkipDirHeader ==
    /\ pc = "loop"
    /\ MoreRecords(data, pos)
    /\ pos' = pos + 16
    /\ pc' = "dir_path"
    /\ UNCHANGED <<data, outcome, config_size, version, require_vis, root_path,
                   dir_path, entry_type, all_paths, seen, result, tvars, svars>>

\* Lines 75-77 and 116: the outer loop ends and the call returns.
Return ==
    /\ pc = "loop"
    /\ ~MoreRecords(data, pos)
    /\ result' = Returned(all_paths, root_path, version)
    /\ outcome' = "returned"
    /\ pc' = "done"
    /\ UNCHANGED <<data, pos, config_size, version, require_vis, root_path,
                   dir_path, entry_type, all_paths, seen, tvars, svars>>

\* Lines 83-90.
ReadDirPath ==
    /\ pc = "dir_path"
    /\ FindNull(data, pos) # NotFound
    /\ LET dp == Decode(Slice(data, pos, FindNull(data, pos)))
       IN /\ dir_path' = dp
          /\ all_paths' = AppendUnseen(all_paths, seen, dp)
          /\ seen' = seen \cup {dp}
    /\ pos' = FindNull(data, pos) + 1
    /\ pc' = "entry"
    /\ UNCHANGED <<data, outcome, config_size, version, require_vis, root_path,
                   entry_type, result, tvars, svars>>

\* Lines 93-98: the type byte of the next child entry; END leaves the inner loop.
ReadEntryType ==
    /\ pc = "entry"
    /\ MoreEntries(data, pos)
    /\ entry_type' = ByteAt(data, pos)
    /\ pos' = pos + 1
    /\ pc' = IF ByteAt(data, pos) = END_ENTRY THEN "loop" ELSE "name"
    /\ UNCHANGED <<data, outcome, config_size, version, require_vis, root_path,
                   dir_path, all_paths, seen, result, tvars, svars>>

\* Line 93: the buffer ends where a type byte would be; the inner loop ends.
EntriesExhausted ==
    /\ pc = "entry"
    /\ ~MoreEntries(data, pos)
    /\ pc' = "loop"
    /\ UNCHANGED <<data, pos, outcome, config_size, version, require_vis, root_path,
                   dir_path, entry_type, all_paths, seen, result, tvars, svars>>

\* Lines 101-114.
ReadEntryName ==
    /\ pc = "name"
    /\ FindNull(data, pos) # NotFound
    /\ LET entry_name == Decode(Slice(data, pos, FindNull(data, pos)))
           full_path == FullPath(dir_path, entry_name)
       IN /\ all_paths' = AppendUnseen(all_paths, seen, full_path)
          /\ seen' = seen \cup {full_path}
    /\ pos' = FindNull(data, pos) + 1
    /\ pc' = "entry"
    /\ UNCHANGED <<data, outcome, config_size, version, require_vis, root_path,
                   dir_path, entry_type, result, tvars, svars>>

ParseStep ==
    \/ ReadMagic \/ RejectMagic
    \/ ReadConfigSize \/ ReadConfigSizeError
    \/ ReadVersion \/ ReadRequireVis \/ ReadHeaderByteError
    \/ ReadRootPath \/ ReadStringError \/ SkipConfig
    \/ SkipDirHeader \/ Return
    \/ ReadDirPath \/ ReadEntryType \/ EntriesExhausted \/ ReadEntryName

\* The state of a call that has just read the file (lines 36-39).
ParseInit(d) ==
    /\ data = d
    /\ pc = "magic"
    /\ pos = 0
    /\ outcome = "running"
    /\ config_size = Unset
    /\ version = Unset
    /\ require_vis = Unset
    /\ root_path = <<>>
    /\ dir_path = <<>>
    /\ entry_type = Unset
    /\ all_paths = <<>>
    /\ seen = {}
    /\ result = {}

\* The matcher is not running.
SearchIdle ==
    /\ paths = <<>>
    /\ pattern = <<>>
    /\ ignore_case = FALSE
    /\ use_glob = FALSE
    /\ use_regex = FALSE
    /\ limit = <<>>
    /\ results = <<>>
    /\ idx = 0
    /\ spc = "idle"
    /\ soutcome = "idle"

-----------------------------------------------------------------------------
(* Input buffers of the decoder *)

MaxTail == 5

\* config_size values written into the header.
CfgSizes == {0, 1, 2, 300}

PackU32(n) == <<n \div 16777216, (n \div 65536) % 256, (n \div 256) % 256, n % 256>>

\* magic, config_size, version 0, require_vis 1, two padding bytes.
Header(cs) == MLOCATE_MAGIC \o PackU32(cs) \o <<0, 1, 0, 0>>

\* A directory header: time_sec (8), time_nsec (4), padding (4).
DirHeader == <<0, 0, 0, 0, 101, 102, 103, 104, 0, 0, 0, 9, 0, 0, 0, 0>>

TailItems == {<<NUL>>, <<END_ENTRY>>, <<SLASH>>, <<97>>, DirHeader}

RECURSIVE TailsOf(_)
TailsOf(n) ==
    IF n = 0 THEN {<<>>}
    ELSE LET shorter == TailsOf(n - 1)
         IN shorter \cup {t \o i : t \in shorter, i \in TailItems}

\* Every proper prefix of a header: a file cut inside its first 16 bytes.
CutHeaders == {SubSeq(Header(0), 1, n) : n \in 0..15}

\* The magic with one byte changed, then an otherwise well-formed file.
WrongMagics ==
    {[i \in 1..8 |-> IF i = k THEN MLOCATE_MAGIC[i] + 1 ELSE MLOCATE_MAGIC[i]] : k \in 1..8}
BadMagicFiles ==
    {m \o PackU32(0) \o <<0, 1, 0, 0>> \o <<NUL>> \o DirHeader \o <<97, NUL, END_ENTRY>> :
        m \in WrongMagics}

Buffers ==
    CutHeaders \cup BadMagicFiles
        \cup {Header(cs) \o t : cs \in CfgSizes, t \in TailsOf(MaxTail)}

PairCfgSizes == {1, 2}
RegionBytes == {NUL, 97}
Regions(k) == [1..k -> RegionBytes]
Streams == TailsOf(MaxTail - 2)


\* A well-formed file as the decoder lays it out: the header, a region of
\* config_size bytes that begins with the terminated root_path, then the
\* directory records, each closed by an END byte.  bytes is what the file
\* holds, str the string Python decodes it to.
MaxDirs == 2
MaxKids == 2
DirPool ==
    {[bytes |-> <<SLASH>>, str |-> <<SLASH>>],
     [bytes |-> <<SLASH, 97>>, str |-> <<SLASH, 97>>]}
KidPool ==
    {[type |-> DIR_ENTRY, bytes |-> <<97>>, str |-> <<97>>],
     [type |-> FILE_ENTRY, bytes |-> <<255, 195, 169>>, str |-> <<REPLACEMENT, 233>>]}
ValidRegions == {<<SLASH, NUL>>, <<SLASH, 97, NUL, DIR_ENTRY, NUL>>}

RecordShapes(m) == [dir : DirPool, kids : [1..m -> KidPool]]
RECURSIVE RecordLists(_, _)
RecordLists(n, m) ==
    IF n = 0 THEN {<<>>}
    ELSE {Append(l, r) : l \in RecordLists(n - 1, m), r \in RecordShapes(m)}

RECURSIVE EncodeKids(_)
EncodeKids(ks) ==
    IF ks = <<>> THEN <<>>
    ELSE <<ks[1].type>> \o ks[1].bytes \o <<NUL>> \o EncodeKids(Tail(ks))
EncodeRecord(r) == DirHeader \o r.dir.bytes \o <<NUL>> \o EncodeKids(r.kids) \o <<END_ENTRY>>
RECURSIVE EncodeRecords(_)
EncodeRecords(rs) ==
    IF rs = <<>> THEN <<>> ELSE EncodeRecord(rs[1]) \o EncodeRecords(Tail(rs))
EncodeFile(region, rs) == Header(Len(region)) \o region \o EncodeRecords(rs)

-----------------------------------------------------------------------------
(* The second call of a pair *)

\* The second call begins: main-like caller keeps the first call's outcome and
\* parses the other buffer (lines 36-39 again).
Restart ==
    /\ run = 1
    /\ family = "pair"
    /\ pc \in {"done", "exit"}
    /\ run' = 2
    /\ first_result' = result
    /\ data2' = data
    /\ data' = data2
    /\ pc' = "magic"
    /\ pos' = 0
    /\ outcome' = "running"
    /\ config_size' = Unset
    /\ version' = Unset
    /\ require_vis' = Unset
    /\ root_path' = <<>>
    /\ dir_path' = <<>>
    /\ entry_type' = Unset
    /\ all_paths' = <<>>
    /\ seen' = {}
    /\ result' = {}
    /\ UNCHANGED <<family, recs, svars>>

-----------------------------------------------------------------------------
(* The decoder's runs *)

NoSecondCall ==
    /\ run = 1
    /\ data2 = <<>>
    /\ first_result = {}

\* One call on an arbitrary buffer.
InitFree ==
    /\ \E d \in Buffers : ParseInit(d)
    /\ NoSecondCall
    /\ family = "free"
    /\ recs = <<>>
    /\ SearchIdle

\* Two calls, on buffers with the same header and the same bytes from offset
\* 16 + config_size on, that differ in the region between.
InitPair ==
    /\ \E cs \in PairCfgSizes : \E r1, r2 \in Regions(cs) : \E s \in Streams :
          /\ r1 # r2
          /\ ParseInit(Header(cs) \o r1 \o s)
          /\ data2 = Header(cs) \o r2 \o s
    /\ run = 1
    /\ first_result = {}
    /\ family = "pair"
    /\ recs = <<>>
    /\ SearchIdle

\* One call on a well-formed file of n directories with m children each.
InitValid ==
    /\ \E n \in 0..MaxDirs : \E m \in 0..MaxKids :
          \E rs \in RecordLists(n, m) : \E region \in ValidRegions :
             /\ ParseInit(EncodeFile(region, rs))
             /\ recs = rs
    /\ NoSecondCall
    /\ family = "valid"
    /\ SearchIdle

Init == InitFree \/ InitPair \/ InitValid

Next == ParseStep \/ Restart

Spec == Init /\ [][Next]_vars

\* One call on an arbitrary buffer, and the call runs on: every statement of
\* parse_mlocate_db that can execute does.  The tails are one item shorter
\* than those of Buffers, the search for a behaviour that never ends keeping
\* the whole graph of behaviours.
LiveBuffers ==
    CutHeaders \cup BadMagicFiles
        \cup {Header(cs) \o t : cs \in CfgSizes, t \in TailsOf(MaxTail - 1)}
InitLive ==
    /\ \E d \in LiveBuffers : ParseInit(d)
    /\ NoSecondCall
    /\ family = "free"
    /\ recs = <<>>
    /\ SearchIdle
SpecLive == InitLive /\ [][ParseStep]_vars /\ WF_vars(ParseStep)

-----------------------------------------------------------------------------
(* Properties of the decoder on arbitrary buffers (Spec) *)

Range(sq) == {sq[i] : i \in 1..Len(sq)}
NoDuplicates(sq) == \A i, j \in 1..Len(sq) : sq[i] = sq[j] => i = j
IsPrefix(s, t) == Len(s) <= Len(t) /\ SubSeq(t, 1, Len(s)) = s

\* The buffer holds no NUL byte at offset p or later.
Unterminated(d, p) == \A i \in 1..Len(d) : i > p => d[i] # NUL

\* The first 8 bytes are exactly the signature.
ExactMagic(d) == Len(d) >= 8 /\ \A i \in 1..8 : d[i] = MLOCATE_MAGIC[i]

ListedOnce ==
    /\ NoDuplicates(all_paths)
    /\ (pc \in {"loop", "dir_path", "entry", "name", "done"} => seen = Range(all_paths))
    /\ \A r \in result : NoDuplicates(r.paths)
FirstOccurrenceKept ==
    pc \in {"loop", "dir_path", "entry", "name"} =>
        /\ IsPrefix(all_paths, all_paths')
        /\ Len(all_paths') <= Len(all_paths) + 1
        /\ (all_paths' # all_paths => all_paths'[Len(all_paths')] \notin seen)
\* C1: all_paths never holds a path twice, during the record loop and in the
\* returned list; seen is exactly the set of listed paths; and every step leaves
\* the listed paths where they are, adding at most one path, at the end, that was
\* not listed before (so a path stays at the position of its first occurrence).
C1_Deduplication == []ListedOnce /\ [][FirstOccurrenceKept]_vars

\* C1 witness: a second directory record has just repeated the first record's
\* directory path, and the path is listed once.
C1_Witness ==
    /\ pc = "entry"
    /\ entry_type = END_ENTRY
    /\ Len(all_paths) >= 1
    /\ all_paths[1] = dir_path
    /\ ByteAt(data, pos - 1) = NUL

\* C2: once the magic has been compared, a buffer whose first 8 bytes are not
\* exactly the signature (shorter buffers included) is in the fatal format-error
\* outcome, with config_size, version, require_vis and root_path never read, no
\* record read and nothing returned.
C2_MagicRejection ==
    (pc # "magic" /\ ~ExactMagic(data)) =>
        /\ pc = "exit"
        /\ outcome = "InvalidFormat"
        /\ config_size = Unset /\ version = Unset /\ require_vis = Unset
        /\ root_path = <<>> /\ dir_path = <<>> /\ entry_type = Unset
        /\ all_paths = <<>> /\ seen = {}
        /\ result = {}

\* C2 witness: a buffer shorter than 8 bytes that is a prefix of the magic has
\* been refused.
C2_Witness ==
    /\ outcome = "InvalidFormat"
    /\ Len(data) < 8 /\ Len(data) > 0
    /\ IsPrefix(data, MLOCATE_MAGIC)

TruncatedReadFails ==
    (pc \in {"root_path", "dir_path", "name"} /\ Unterminated(data, pos)) =>
        /\ pc' = "exit"
        /\ outcome' = "ValueError"
        /\ result' = {}
        /\ all_paths' = all_paths /\ seen' = seen
\* The only step after an error is the start of another call.
ErrorEndsCall == pc = "exit" => (pc' = "magic" /\ run' = run + 1 /\ result' = {})
\* C5: a step that reads a string (root_path, a directory path, a child name)
\* from a position with no NUL up to the end of the buffer ends the call in a
\* fatal error: nothing is returned, no path is added.  A call that ended in an
\* error takes no further step and has returned nothing.
C5_TruncatedStringFatal ==
    /\ [][TruncatedReadFails]_vars
    /\ [][ErrorEndsCall]_vars
    /\ [](pc = "exit" => result = {})

\* C5 witness: a child name ran to the end of the buffer after earlier paths had
\* been collected; the call ended in the error and returned nothing.
C5_Witness ==
    /\ outcome = "ValueError"
    /\ Len(all_paths) >= 2
    /\ entry_type \notin {Unset, END_ENTRY}
    /\ result = {}

\* The three past-the-end cases of C6.
HeaderCut(d) == Len(d) < 16
StreamOffsetPastEnd(d) == Len(d) >= 12 /\ 16 + UnpackU32(SubSeq(d, 9, 12)) > Len(d)
\* The call returned with the last record's child list not closed by END: the
\* last byte consumed is a string terminator, not an END byte.
EndedMidRecord == pc = "done" /\ seen # {} /\ ByteAt(data, pos - 1) # END_ENTRY

\* C6 (as claimed): a finished call on a buffer with valid magic in which the
\* header fields are missing, the record-stream offset 16 + config_size is past
\* the end, or the buffer ran out inside a directory record, ended in a fatal
\* error and returned nothing.
C6_PastEndIsFatal ==
    (/\ pc \in {"done", "exit"}
     /\ ExactMagic(data)
     /\ (HeaderCut(data) \/ StreamOffsetPastEnd(data) \/ EndedMidRecord)) =>
        (pc = "exit" /\ result = {})

\* The offset of the first byte after the config block in the documented layout:
\* the 16 header bytes, root_path with its terminator, config_size bytes.
DocumentedStreamOffset(d) == FindNull(d, 16) + 1 + UnpackU32(SubSeq(d, 9, 12))

\* C10 (as claimed): on a buffer that holds the documented layout (a terminated
\* root_path at offset 16, then a config block of exactly config_size bytes),
\* the first directory record is read from the first byte after the config
\* block, and version is byte 12 and root_path the string at offset 16.
C10_DocumentedLayout ==
    (/\ pc = "loop" /\ seen = {}
     /\ Len(data) >= DocumentedStreamOffset(data)) =>
        /\ pos = DocumentedStreamOffset(data)
        /\ version = ByteAt(data, 12)
        /\ root_path = Decode(Slice(data, 16, FindNull(data, 16)))

-----------------------------------------------------------------------------
(* Two calls on buffers that differ only between offset 16 and the stream *)

\* The bytes of d from offset p on.
From(d, p) == SubSeq(d, p + 1, Len(d))
HeaderCfg(d) == UnpackU32(SubSeq(d, 9, 12))
SameStream(d1, d2) ==
    /\ SubSeq(d1, 1, 16) = SubSeq(d2, 1, 16)
    /\ From(d1, 16 + HeaderCfg(d1)) = From(d2, 16 + HeaderCfg(d2))

\* C3: the record loop starts at offset 16 + config_size wherever the root_path
\* terminator was found; and of two buffers with the same header, the same
\* config_size and the same bytes from 16 + config_size on, if the first decoded
\* then the second decodes to the same path list, unless the second has no NUL
\* at all from offset 16 on (its root_path is unterminated: it fails there).
C3_ConfigBlockSkip ==
    /\ (pc = "loop" /\ seen = {}) => pos = 16 + HeaderCfg(data)
    /\ (run = 2 /\ pc = "done" /\ first_result # {} /\ SameStream(data, data2)) =>
          \A r \in first_result : r.paths = all_paths /\ result = {[r EXCEPT !.root_path = root_path]}
    /\ (run = 2 /\ pc = "exit" /\ first_result # {} /\ SameStream(data, data2)) =>
          (outcome = "ValueError" /\ Unterminated(data, 16))

\* C3 witness: both buffers decoded, their root paths differ in length (one
\* terminator lies before 16 + config_size, the other after it), and the same
\* non-empty path list came out.
C3_Witness ==
    /\ run = 2 /\ pc = "done"
    /\ Len(all_paths) >= 1
    /\ first_result # {}
    /\ \A r \in first_result : Len(r.root_path) # Len(root_path)
    /\ FindNull(data, 16) >= 16 + config_size
    /\ data # data2


-----------------------------------------------------------------------------
(* Well-formed files: what was encoded against what is decoded *)

NDirs == Len(recs)
NKids == IF recs = <<>> THEN 0 ELSE Len(recs[1].kids)
UniqueDirs == \A i, j \in 1..Len(recs) : recs[i].dir.str = recs[j].dir.str => i = j
UniqueKids ==
    \A i \in 1..Len(recs) : \A a, b \in 1..Len(recs[i].kids) :
        recs[i].kids[a].str = recs[i].kids[b].str => a = b

\* The path a child named n stands for under directory d.
ChildPath(d, n) == IF d = <<SLASH>> THEN <<SLASH>> \o n ELSE d \o <<SLASH>> \o n

\* The paths the stream spells out, in stream order: each directory, then its
\* children.
RECURSIVE KidPaths(_, _)
KidPaths(d, ks) ==
    IF ks = <<>> THEN <<>> ELSE <<ChildPath(d, ks[1].str)>> \o KidPaths(d, Tail(ks))
RECURSIVE StreamPaths(_)
StreamPaths(rs) ==
    IF rs = <<>> THEN <<>>
    ELSE <<rs[1].dir.str>> \o KidPaths(rs[1].dir.str, rs[1].kids) \o StreamPaths(Tail(rs))

\* sq without the later occurrences of a value.
RECURSIVE FirstOccurrences(_)
FirstOccurrences(sq) ==
    IF sq = <<>> THEN <<>>
    ELSE LET front == FirstOccurrences(SubSeq(sq, 1, Len(sq) - 1))
             last == sq[Len(sq)]
         IN IF last \in Range(front) THEN front ELSE Append(front, last)

RoundTripCase == family = "valid" /\ pc = "done" /\ UniqueDirs /\ UniqueKids

\* C4 (as claimed): a well-formed file of N unique directories with M unique
\* child names each decodes to exactly N + N*M paths, the stream's paths in
\* stream order.
C4_RoundTripCount ==
    RoundTripCase =>
        /\ Len(all_paths) = NDirs + NDirs * NKids
        /\ all_paths = StreamPaths(recs)

\* C4 (amended): such a file decodes to the stream's paths in stream order with
\* the later occurrences of a path dropped; that is N + N*M paths exactly when
\* the N + N*M strings are pairwise distinct (a directory path may equal the
\* full path of another directory's child), and fewer otherwise.
C4_RoundTripFirstOccurrences ==
    RoundTripCase =>
        /\ all_paths = FirstOccurrences(StreamPaths(recs))
        /\ \A r \in result : r.paths = all_paths
        /\ result # {}
        /\ Len(all_paths) <= NDirs + NDirs * NKids
        /\ (Len(all_paths) = NDirs + NDirs * NKids <=> NoDuplicates(StreamPaths(recs)))

\* C4 witness: two unique directories with children decoded to N + N*M paths.
C4_Witness ==
    /\ RoundTripCase
    /\ NDirs = 2 /\ NKids >= 1
    /\ Len(all_paths) = NDirs + NDirs * NKids

\* Where record i begins in the file, and the record the cursor is inside.
RecordStart(i) == 16 + HeaderCfg(data) + Len(EncodeRecords(SubSeq(recs, 1, i - 1)))
Inside(i) ==
    RecordStart(i) + 16 < pos /\ pos < RecordStart(i) + Len(EncodeRecord(recs[i]))

\* C9: in a well-formed file every directory header is consumed at a record
\* boundary (an END byte closed the child list before it); while the children
\* are read dir_path is the path of the record the cursor is in; and the paths
\* seen are exactly the directory paths and, for every child, directory path +
\* "/" + name, or "/" + name under the directory "/".
C9_PathReconstruction ==
    family = "valid" =>
        /\ pc = "dir_path" => \E i \in 1..Len(recs) : pos = RecordStart(i) + 16
        /\ pc \in {"entry", "name"} =>
              \E i \in 1..Len(recs) : Inside(i) /\ dir_path = recs[i].dir.str
        /\ seen \subseteq Range(StreamPaths(recs))
        /\ pc = "done" => seen = Range(StreamPaths(recs))
        /\ pc # "exit"

\* C9 witness: a file with a child "a" under "/" and children under "/a" has
\* been decoded: "/a" (not "//a"), "/a/a" and "/" + U+FFFD + e-acute are listed.
C9_Witness ==
    /\ family = "valid" /\ pc = "done"
    /\ Len(recs) = 2 /\ recs[1].dir.str = <<SLASH>> /\ recs[2].dir.str = <<SLASH, 97>>
    /\ <<SLASH, 97>> \in seen
    /\ <<SLASH, 97, SLASH, 97>> \in seen
    /\ <<SLASH, REPLACEMENT, 233>> \in seen

-----------------------------------------------------------------------------
(* search_paths: the three match predicates.  A string is a sequence of     *)
(* code points; the patterns modelled are those over PatternChars, which    *)
(* hold no backslash, "-", "|", ")", ",", "+" or "$".                       *)

STAR == 42
QUERY == 63
LBRACKET == 91
RBRACKET == 93
BANG == 33
CARET == 94
DOT == 46
LPAREN == 40
NEWLINE == 10
LBRACE == 123
RBRACE == 125
ZERO == 48
NINE == 57

\* str.lower(), for code points below 256 and U+FFFD.
LowerChar(c) ==
    IF (c >= 65 /\ c <= 90) \/ (c >= 192 /\ c <= 222 /\ c # 215) THEN c + 32 ELSE c
Lower(str) == [i \in 1..Len(str) |-> LowerChar(str[i])]

\* pat in target
Contains(target, pat) ==
    \E i \in 0..(Len(target) - Len(pat)) : SubSeq(target, i + 1, i + Len(pat)) = pat

\* fnmatch.translate: where the class opened at pat[i] = "[" closes (0 when it
\* does not, and the "[" is a literal).  A "!" and then a "]" right after the
\* "[" do not close it.
ClassStart(pat, i) ==
    LET j == IF i + 1 <= Len(pat) /\ pat[i + 1] = BANG THEN i + 2 ELSE i + 1
    IN IF j <= Len(pat) /\ pat[j] = RBRACKET THEN j + 1 ELSE j
ClassEnd(pat, i) ==
    LET closers == {j \in ClassStart(pat, i)..Len(pat) : pat[j] = RBRACKET}
    IN IF closers = {} THEN 0
       ELSE CHOOSE j \in closers : \A k \in closers : j <= k
GlobClassHas(pat, i, c) ==
    LET negated == pat[i + 1] = BANG
        first == IF negated THEN i + 2 ELSE i + 1
        members == {pat[j] : j \in first..(ClassEnd(pat, i) - 1)}
    IN IF negated THEN c \notin members ELSE c \in members

\* fnmatch.fnmatch(name, pat) on POSIX: the whole name against the pattern.
RECURSIVE GlobFrom(_, _, _, _)
GlobFrom(pat, i, name, k) ==
    IF i > Len(pat) THEN k > Len(name)
    ELSE IF pat[i] = STAR
         THEN GlobFrom(pat, i + 1, name, k)
              \/ (k <= Len(name) /\ GlobFrom(pat, i, name, k + 1))
    ELSE IF k > Len(name) THEN FALSE
    ELSE IF pat[i] = QUERY THEN GlobFrom(pat, i + 1, name, k + 1)
    ELSE IF pat[i] = LBRACKET /\ ClassEnd(pat, i) # 0
         THEN GlobClassHas(pat, i, name[k])
              /\ GlobFrom(pat, ClassEnd(pat, i) + 1, name, k + 1)
    ELSE pat[i] = name[k] /\ GlobFrom(pat, i + 1, name, k + 1)
FnMatch(name, pat) == GlobFrom(pat, 1, name, 1)

\* re.compile: the pattern as a sequence of items (an atom and its
\* quantifier), or not ok where re.error is raised.
RegexClassStart(pat, i) ==
    LET j == IF i + 1 <= Len(pat) /\ pat[i + 1] = CARET THEN i + 2 ELSE i + 1
    IN j + 1
RegexClassEnd(pat, i) ==
    LET closers == {j \in RegexClassStart(pat, i)..Len(pat) : pat[j] = RBRACKET}
    IN IF closers = {} THEN 0
       ELSE CHOOSE j \in closers : \A k \in closers : j <= k
AtomAt(pat, i) ==
    IF pat[i] = DOT THEN [kind |-> "any", chars |-> {}, negated |-> FALSE]
    ELSE IF pat[i] = CARET THEN [kind |-> "bol", chars |-> {}, negated |-> FALSE]
    ELSE IF pat[i] = LBRACKET
         THEN LET negated == i + 1 <= Len(pat) /\ pat[i + 1] = CARET
                  first == IF negated THEN i + 2 ELSE i + 1
              IN [kind |-> "set",
                  chars |-> {pat[j] : j \in first..(RegexClassEnd(pat, i) - 1)},
                  negated |-> negated]
    ELSE [kind |-> "set", chars |-> {pat[i]}, negated |-> FALSE]
AtomEnd(pat, i) == IF pat[i] = LBRACKET THEN RegexClassEnd(pat, i) ELSE i
IsQuantifier(c) == c \in {STAR, QUERY}

\* The repeat "{n}": where the "}" of a "{" at pat[i] stands when only digits,
\* and at least one, lie between them (0 otherwise, and the "{" is a literal).
IsDigit(c) == c >= ZERO /\ c <= NINE
BraceClose(pat, i) ==
    IF i > Len(pat) \/ pat[i] # LBRACE THEN 0
    ELSE LET stops == {j \in (i + 1)..Len(pat) : ~IsDigit(pat[j])}
             stop == IF stops = {} THEN 0
                     ELSE CHOOSE j \in stops : \A k \in stops : j <= k
         IN IF stop > i + 1 /\ pat[stop] = RBRACE THEN stop ELSE 0
RepeatDigits(pat, i) == [j \in 1..(BraceClose(pat, i) - i - 1) |-> pat[i + j] - ZERO]

\* int(lo) >= MAXREPEAT, on the decimal digits: MAXREPEAT is 2^32 - 1, past
\* the integers of the checker.
MaxRepeatDigits == <<4, 2, 9, 4, 9, 6, 7, 2, 9, 5>>
RECURSIVE StripZeros(_)
StripZeros(ds) == IF ds # <<>> /\ ds[1] = 0 THEN StripZeros(Tail(ds)) ELSE ds
RECURSIVE DigitsAtLeast(_, _)
DigitsAtLeast(ds, bound) ==
    IF Len(ds) # Len(bound) THEN Len(ds) > Len(bound)
    ELSE IF ds = <<>> THEN TRUE
    ELSE IF ds[1] # bound[1] THEN ds[1] > bound[1]
    ELSE DigitsAtLeast(Tail(ds), Tail(bound))
TooLarge(ds) == DigitsAtLeast(StripZeros(ds), MaxRepeatDigits)
RECURSIVE ToInt(_)
ToInt(ds) == IF ds = <<>> THEN 0 ELSE ToInt(SubSeq(ds, 1, Len(ds) - 1)) * 10 + ds[Len(ds)]

\* A quantifier begins at pat[i]; where it ends.
QuantifierAt(pat, i) ==
    i <= Len(pat) /\ (IsQuantifier(pat[i]) \/ BraceClose(pat, i) # 0)
QuantifierEnd(pat, i) == IF pat[i] = LBRACE THEN BraceClose(pat, i) ELSE i

ReError == [ok |-> FALSE, overflow |-> FALSE, items |-> <<>>]
Overflow == [ok |-> FALSE, overflow |-> TRUE, items |-> <<>>]

\* The parse is left to right and stops at the first failure.  A repeat
\* count is tested against MAXREPEAT (OverflowError) before the repeat is
\* tested for having something to repeat (re.error).
\* A group is never closed (no ")" in the patterns), which is an re.error
\* raised after the group's content is parsed.
RECURSIVE RegexItems(_, _)
RegexItems(pat, i) ==
    IF i > Len(pat) THEN [ok |-> TRUE, overflow |-> FALSE, items |-> <<>>]
    ELSE IF BraceClose(pat, i) # 0
         THEN IF TooLarge(RepeatDigits(pat, i)) THEN Overflow ELSE ReError
    ELSE IF IsQuantifier(pat[i]) THEN ReError
    ELSE IF pat[i] = LPAREN
         THEN LET extension == i + 1 <= Len(pat) /\ pat[i + 1] = QUERY
                  lookahead == extension /\ i + 2 <= Len(pat) /\ pat[i + 2] = BANG
              IN IF extension /\ ~lookahead THEN ReError
                 ELSE IF RegexItems(pat, IF lookahead THEN i + 3 ELSE i + 1).overflow
                      THEN Overflow
                      ELSE ReError
    ELSE IF pat[i] = LBRACKET /\ RegexClassEnd(pat, i) = 0 THEN ReError
    ELSE LET e == AtomEnd(pat, i)
             quantified == QuantifierAt(pat, e + 1)
             counted == quantified /\ pat[e + 1] = LBRACE
             q == IF quantified THEN QuantifierEnd(pat, e + 1) ELSE e
             lazy == quantified /\ q + 1 <= Len(pat) /\ pat[q + 1] = QUERY
             next == IF lazy THEN q + 2 ELSE q + 1
             item == [atom |-> AtomAt(pat, i),
                      quant |-> IF quantified THEN pat[e + 1] ELSE 0,
                      count |-> IF counted THEN StripZeros(RepeatDigits(pat, e + 1))
                                ELSE <<>>]
         IN IF counted /\ TooLarge(RepeatDigits(pat, e + 1)) THEN Overflow
            ELSE IF quantified /\ pat[i] = CARET THEN ReError
            ELSE IF quantified /\ QuantifierAt(pat, next)
                 THEN IF BraceClose(pat, next) # 0 /\ TooLarge(RepeatDigits(pat, next))
                      THEN Overflow
                      ELSE ReError
            ELSE LET rest == RegexItems(pat, next)
                 IN [ok |-> rest.ok, overflow |-> rest.overflow,
                     items |-> <<item>> \o rest.items]
Compiles(pat) == RegexItems(pat, 1).ok
\* re.compile raises OverflowError, which is not an re.error.
Overflows(pat) == RegexItems(pat, 1).overflow

\* One character against an atom, under re.IGNORECASE when ic.
AtomTakes(atom, c, ic) ==
    IF atom.kind = "any" THEN c # NEWLINE
    ELSE LET hit == IF ic THEN \E m \in atom.chars : LowerChar(m) = LowerChar(c)
                    ELSE c \in atom.chars
         IN IF atom.negated THEN ~hit ELSE hit

\* The n characters of str after offset i are there and each is taken.
RunTakes(atom, n, str, i, ic) ==
    /\ n <= Len(str) - i
    /\ \A j \in 1..n : AtomTakes(atom, str[i + j], ic)

\* The items from the k-th on match at offset i of str.  A count of more
\* digits than the string has characters is more than the string holds.
RECURSIVE ItemsMatch(_, _, _, _, _)
ItemsMatch(items, k, str, i, ic) ==
    IF k > Len(items) THEN TRUE
    ELSE LET it == items[k]
             takes == i < Len(str) /\ AtomTakes(it.atom, str[i + 1], ic)
         IN IF it.atom.kind = "bol" THEN i = 0 /\ ItemsMatch(items, k + 1, str, i, ic)
            ELSE IF it.quant = 0 THEN takes /\ ItemsMatch(items, k + 1, str, i + 1, ic)
            ELSE IF it.quant = LBRACE
                 THEN /\ Len(it.count) <= Len(str)
                      /\ RunTakes(it.atom, ToInt(it.count), str, i, ic)
                      /\ ItemsMatch(items, k + 1, str, i + ToInt(it.count), ic)
            ELSE IF it.quant = QUERY
                 THEN ItemsMatch(items, k + 1, str, i, ic)
                      \/ (takes /\ ItemsMatch(items, k + 1, str, i + 1, ic))
            ELSE ItemsMatch(items, k + 1, str, i, ic)
                 \/ (takes /\ ItemsMatch(items, k, str, i + 1, ic))

\* rx.search(p): a match starting anywhere.
RegexSearch(pat, str, ic) ==
    \E i \in 0..Len(str) : ItemsMatch(RegexItems(pat, 1).items, 1, str, i, ic)

\* Lines 131, 138-140 and 146-149: whether path p is a match.
Matches(p, pat, ic, glob, regex) ==
    IF regex THEN RegexSearch(pat, p, ic)
    ELSE IF glob THEN FnMatch(IF ic THEN Lower(p) ELSE p, IF ic THEN Lower(pat) ELSE pat)
    ELSE Contains(IF ic THEN Lower(p) ELSE p, IF ic THEN Lower(pat) ELSE pat)

-----------------------------------------------------------------------------
(* search_paths: the scan.  limit is <<>> for None and <<n>> for an int.    *)

\* The case-folded string the match was made on.
AppendedTarget(p, ic) == IF ic THEN Lower(p) ELSE p

\* Lines 132, 141 and 150: results.append(p), the path as given.
Appended(p, ic) == p

\* Lines 133, 142 and 151: limit and len(results) >= limit.
LimitReached(lim, res) == lim # <<>> /\ lim[1] # 0 /\ Len(res) >= lim[1]

\* Lines 121-126, 136 and 145-146: results = [], and in regex mode the pattern
\* compiles.
BeginScan ==
    /\ spc = "start"
    /\ use_regex => Compiles(pattern)
    /\ results' = <<>>
    /\ spc' = "scan"
    /\ UNCHANGED <<paths, pattern, ignore_case, use_glob, use_regex, limit, idx,
                   soutcome, pvars, tvars>>

\* Lines 127-129: re.error, the message and sys.exit(1).
RejectPattern ==
    /\ spc = "start"
    /\ use_regex /\ ~Compiles(pattern) /\ ~Overflows(pattern)
    /\ results' = <<>>
    /\ spc' = "exit"
    /\ soutcome' = "InvalidPattern"
    /\ UNCHANGED <<paths, pattern, ignore_case, use_glob, use_regex, limit, idx,
                   pvars, tvars>>

\* Lines 125-127: re.compile raises OverflowError, which "except re.error"
\* does not catch; the exception leaves search_paths.
CompileOverflow ==
    /\ spc = "start"
    /\ use_regex /\ Overflows(pattern)
    /\ results' = <<>>
    /\ spc' = "exit"
    /\ soutcome' = "OverflowError"
    /\ UNCHANGED <<paths, pattern, ignore_case, use_glob, use_regex, limit, idx,
                   pvars, tvars>>

\* Lines 130-134, 137-143 and 147-152: the next path matches; it is appended,
\* and the loop is left (and line 154 returns) when the limit is reached.
ScanMatch ==
    /\ spc = "scan"
    /\ idx < Len(paths)
    /\ Matches(paths[idx + 1], pattern, ignore_case, use_glob, use_regex)
    /\ LET appended == Append(results, Appended(paths[idx + 1], ignore_case))
       IN /\ results' = appended
          /\ spc' = IF LimitReached(limit, appended) THEN "done" ELSE "scan"
          /\ soutcome' = IF LimitReached(limit, appended) THEN "returned" ELSE soutcome
    /\ idx' = idx + 1
    /\ UNCHANGED <<paths, pattern, ignore_case, use_glob, use_regex, limit,
                   pvars, tvars>>

\* The next path does not match.
ScanSkip ==
    /\ spc = "scan"
    /\ idx < Len(paths)
    /\ ~Matches(paths[idx + 1], pattern, ignore_case, use_glob, use_regex)
    /\ idx' = idx + 1
    /\ UNCHANGED <<paths, pattern, ignore_case, use_glob, use_regex, limit, results,
                   spc, soutcome, pvars, tvars>>

\* The paths are exhausted; line 154: return results.
ScanEnd ==
    /\ spc = "scan"
    /\ idx = Len(paths)
    /\ spc' = "done"
    /\ soutcome' = "returned"
    /\ UNCHANGED <<paths, pattern, ignore_case, use_glob, use_regex, limit, results,
                   idx, pvars, tvars>>

\* The decoder is not running.
ParseIdle ==
    /\ data = <<>>
    /\ pc = "idle"
    /\ pos = 0
    /\ outcome = "idle"
    /\ config_size = Unset
    /\ version = Unset
    /\ require_vis = Unset
    /\ root_path = <<>>
    /\ dir_path = <<>>
    /\ entry_type = Unset
    /\ all_paths = <<>>
    /\ seen = {}
    /\ result = {}
    /\ NoSecondCall
    /\ family = "none"
    /\ recs = <<>>

\* Inputs of the matcher.
MaxPaths == 3
PathPool == {<<SLASH, 97>>, <<SLASH, 65>>, <<SLASH, 98, SLASH, 97>>}
PatternChars ==
    {STAR, QUERY, LBRACKET, RBRACKET, BANG, CARET, DOT, LPAREN, SLASH, 65, 97, 98,
     LBRACE, RBRACE} \cup ZERO..NINE
PatternPool ==
    {<<>>, <<97>>, <<65>>, <<SLASH, QUERY>>, <<STAR, 97>>,
     <<SLASH, LBRACKET, BANG, 97, RBRACKET, STAR>>, <<LBRACKET>>,
     <<CARET, SLASH, 97>>, <<SLASH, DOT, SLASH>>,
     <<97, LBRACE, 50, RBRACE>>,
     <<97, LBRACE, 52, 50, 57, 52, 57, 54, 55, 50, 57, 53, RBRACE>>}
LimitValues == {<<>>, <<-1>>, <<0>>, <<1>>, <<2>>}

RECURSIVE PathLists(_)
PathLists(n) ==
    IF n = 0 THEN {<<>>}
    ELSE LET shorter == PathLists(n - 1)
         IN shorter \cup {Append(l, q) : l \in shorter, q \in PathPool}

InitSearch ==
    /\ paths \in PathLists(MaxPaths)
    /\ pattern \in PatternPool
    /\ ignore_case \in BOOLEAN
    /\ use_glob \in BOOLEAN
    /\ use_regex \in BOOLEAN
    /\ limit \in LimitValues
    /\ results = <<>>
    /\ idx = 0
    /\ spc = "start"
    /\ soutcome = "running"
    /\ ParseIdle

NextSearch ==
    BeginScan \/ RejectPattern \/ CompileOverflow \/ ScanMatch \/ ScanSkip \/ ScanEnd

SpecSearch == InitSearch /\ [][NextSearch]_vars

-----------------------------------------------------------------------------
(* Properties of the matcher (SpecSearch) *)

IsMatch(p) == Matches(p, pattern, ignore_case, use_glob, use_regex)
\* The offsets (from 1) of the matching paths among the first n.
MatchOffsets(n) == {i \in 1..n : IsMatch(paths[i])}
Take(sq, n) == SubSeq(sq, 1, IF n < Len(sq) THEN n ELSE Len(sq))

\* Every path examined had fewer than limit matches before it: none after the
\* limit-th match was examined.
ExaminedUpToLimit == \A i \in 1..idx : Cardinality(MatchOffsets(i - 1)) < limit[1]

\* C7 (as claimed): a call with a limit given, any integer, returns at most
\* limit paths, the first limit matching paths in input order, and has examined
\* no path after the limit-th match (where there is one: limit >= 1).  An empty
\* result is taken to be within any cap, a negative one too.
C7_LimitCaps ==
    (spc = "done" /\ limit # <<>>) =>
        /\ (Len(results) <= limit[1] \/ results = <<>>)
        /\ results = Take(SelectSeq(paths, IsMatch), limit[1])
        /\ (limit[1] >= 1 => ExaminedUpToLimit)

\* The part of C7 the code keeps: with a limit of 1 or more the result is the
\* first limit matching paths and the scan stops at the limit-th match.
LimitCapsWhenPositive ==
    (spc = "done" /\ limit # <<>> /\ limit[1] >= 1) =>
        /\ Len(results) <= limit[1]
        /\ results = Take(SelectSeq(paths, IsMatch), limit[1])
        /\ ExaminedUpToLimit

FilterOfExamined ==
    /\ spc \in {"scan", "done"} /\ limit = <<>> =>
          /\ results = SelectSeq(SubSeq(paths, 1, idx), IsMatch)
          /\ Range(results) \subseteq Range(paths)
    /\ spc = "done" /\ limit = <<>> =>
          /\ idx = Len(paths)
          /\ results = SelectSeq(paths, IsMatch)
\* C8: with no limit the call returns exactly the matching paths, in input
\* order, each as it stands in the input (never its case-folded form); every
\* result at any time is the matching part of the paths examined so far; and
\* no step changes the input list.
C8_OrderPreservingFilter == []FilterOfExamined /\ [][paths' = paths]_vars

\* C8 witness: a case-insensitive scan without limit returned a path with an
\* upper-case letter, left a path out, and kept two in input order.
C8_Witness ==
    /\ spc = "done" /\ limit = <<>> /\ ignore_case
    /\ Len(results) = 2 /\ Len(paths) = 3
    /\ results[1] = <<SLASH, 65>>
    /\ results[2] = paths[3]
    /\ paths[1] # results[1]

\* The call is in the record loop of lines 75-114; it has ended.
InLoop == pc \in {"loop", "dir_path", "entry", "name"}
Finished == pc \in {"done", "exit"}

\* The loop begins at 16 + config_size.
LoopStartsAfterConfig == pc = "skip" => (pc' = "loop" /\ pos' = 16 + config_size)

\* Every step of an iteration moves the cursor forward: 16 for the header,
\* past the NUL for a path or a name, 1 for a type byte.  Only the end of the
\* inner loop at the end of the buffer leaves it where it is, and the outer
\* loop then ends too.
CursorAdvances ==
    /\ (pc = "loop" /\ pc' = "dir_path") => pos' = pos + 16
    /\ (pc \in {"dir_path", "name"} /\ pc' = "entry") =>
          (pos' > pos /\ pos' <= Len(data) /\ data[pos'] = NUL)
    /\ (pc = "entry" /\ pos < Len(data)) => (pos' = pos + 1 /\ InLoop')
    /\ (pc = "entry" /\ pos >= Len(data)) =>
          (pc' = "loop" /\ pos' = pos /\ ~MoreRecords(data, pos))
    /\ (InLoop /\ InLoop' /\ ~(pc = "entry" /\ pos >= Len(data))) => pos' > pos
    /\ (InLoop /\ pc' = "exit") => pos' = pos

\* At a record boundary with fewer than 16 bytes left the call returns its
\* list; with 16 or more it reads another record.
EndsAtBoundary ==
    /\ (pc = "loop" /\ Len(data) - pos < 16) =>
          /\ pc' = "done" /\ outcome' = "returned" /\ pos' = pos
          /\ result' = Returned(all_paths, root_path, version)
    /\ (pc = "loop" /\ Len(data) - pos >= 16) => pc' = "dir_path"

\* The cursor of an iteration under way is inside the buffer.
CursorInBuffer == pc \in {"dir_path", "entry", "name"} => pos <= Len(data)

\* C12: every call of parse_mlocate_db on a finite buffer ends, in a returned
\* list or in a fatal error; the record loop begins at 16 + config_size; the
\* cursor grows on every iteration of the outer and of the inner loop and
\* stays inside the buffer; and at a record boundary with fewer than 16
\* bytes left the loop ends and the list is returned, without an error.
C12_DecoderTermination ==
    /\ []<>Finished
    /\ []CursorInBuffer
    /\ [][LoopStartsAfterConfig]_vars
    /\ [][CursorAdvances]_vars
    /\ [][EndsAtBoundary]_vars

\* C12 witness: a call returned after a whole record (header, directory path
\* and END) with some bytes, fewer than 16, left behind it.
C12_Witness ==
    /\ pc = "done" /\ outcome = "returned"
    /\ Len(all_paths) = 1 /\ entry_type = END_ENTRY
    /\ pos > 16 + config_size + 16
    /\ Len(data) - pos > 0 /\ Len(data) - pos < 16

\* The call ended before any path was examined, and returned no list.
EndedBeforeScan == spc = "exit" /\ idx = 0 /\ results = <<>>
\* No error has come up.
NoErrorOutcome == spc \in {"start", "scan", "done"} /\ soutcome \in {"running", "returned"}

\* C11: in regex mode a pattern that does not compile ends the call with the
\* InvalidPattern outcome before any path is examined and without a result
\* list; with a pattern that compiles, and always in substring and glob mode,
\* no error outcome ever comes up.
C11_RegexFailFast ==
    /\ (use_regex /\ ~Compiles(pattern) /\ spc # "start") =>
          (EndedBeforeScan /\ soutcome = "InvalidPattern")
    /\ (~use_regex \/ Compiles(pattern)) => NoErrorOutcome

\* What does hold: every failure to compile ends the call before the scan,
\* as InvalidPattern for an re.error and as an uncaught OverflowError for a
\* repeat count of MAXREPEAT or more; nothing else is an error.
FailFastOnAnyCompileFailure ==
    /\ (use_regex /\ ~Compiles(pattern) /\ spc # "start") =>
          /\ EndedBeforeScan
          /\ soutcome = (IF Overflows(pattern) THEN "OverflowError" ELSE "InvalidPattern")
    /\ (~use_regex \/ Compiles(pattern)) => NoErrorOutcome

====
